---- MODULE Spec2Model ----
(***************************************************************************)
(* Model of db_converter.py: the Table class (name, primary key, fields,   *)
(* foreign keys, converted body, alters) and convert_dump_to_innodb.       *)
(*                                                                         *)
(* Text is a sequence of lexical atoms.  Every literal the code searches   *)
(* for or writes is a sequence of atoms ("ENGINE=MyISAM" is                *)
(* <<"ENGINE", "=MyISAM">>), no atom is a concatenation of others, so the  *)
(* code's str.replace / re.search / re.findall act on atoms exactly as     *)
(* they act on the characters of the rendered text.  The atom "BT" is the  *)
(* backtick character, written # in the comments below.                    *)
(***************************************************************************)
EXTENDS Integers, Sequences, FiniteSets, TLC

VARIABLES
    sql,               \* content of the input file (read at line 141-142)
    only_single_keys,  \* the flag of convert_dump_to_innodb
    hashSeed,          \* iteration order of list(set(...)) in this process
    outFile,           \* the sibling file <stem>_innodb<suffix>
    pc,                \* position inside convert_dump_to_innodb
    tables,            \* line 145: list of Table bodies
    db_tables,         \* line 147: dict name -> Table (insertion ordered)
    foreign_keys,      \* line 148: dict primary key -> table name
    new_sql,           \* lines 150-154
    alters,            \* lines 155-169
    ret,               \* what the call returned or raised
    body,              \* Table.body of the table under test
    other_tables,      \* the dict handed to get_converted_body/get_alters
    call,              \* the Table method applied last
    result             \* what that method returned or raised

vars == <<sql, only_single_keys, hashSeed, outFile, pc, tables, db_tables,
          foreign_keys, new_sql, alters, ret, body, other_tables, call, result>>

convVars == <<sql, only_single_keys, outFile, pc, tables, db_tables,
              foreign_keys, new_sql, alters, ret>>

tableVars == <<body, other_tables, call, result>>

-----------------------------------------------------------------------------
(* Text primitives: Python str operations on sequences of atoms.           *)

\* s[i:i+len(p)] == p
StartsAt(s, p, i) ==
    /\ i >= 1
    /\ i + Len(p) - 1 <= Len(s)
    /\ \A k \in 1..Len(p) : s[i + k - 1] = p[k]

\* p in s
Contains(s, p) == \E i \in 1..(Len(s) - Len(p) + 1) : StartsAt(s, p, i)

\* the first occurrence of p in s at or after position i, 0 when none
FindFrom(s, p, i) ==
    LET occ == {j \in i..(Len(s) - Len(p) + 1) : StartsAt(s, p, j)}
    IN IF occ = {} THEN 0 ELSE CHOOSE j \in occ : \A k \in occ : j <= k

RECURSIVE ReplaceFrom(_, _, _, _)
ReplaceFrom(s, old, new, i) ==
    LET j == FindFrom(s, old, i)
    IN IF j = 0 THEN SubSeq(s, i, Len(s))
       ELSE SubSeq(s, i, j - 1) \o new \o ReplaceFrom(s, old, new, j + Len(old))

\* s.replace(old, new): every non-overlapping occurrence, left to right
Replace(s, old, new) == ReplaceFrom(s, old, new, 1)

RECURSIVE CountFrom(_, _, _)
CountFrom(s, p, i) ==
    LET j == FindFrom(s, p, i)
    IN IF j = 0 THEN 0 ELSE 1 + CountFrom(s, p, j + Len(p))

\* s.count(p)
Count(s, p) == CountFrom(s, p, 1)

RECURSIVE SplitFrom(_, _, _, _)
SplitFrom(s, sep, i, acc) ==
    IF i > Len(s) THEN <<acc>>
    ELSE IF s[i] = sep THEN <<acc>> \o SplitFrom(s, sep, i + 1, <<>>)
         ELSE SplitFrom(s, sep, i + 1, Append(acc, s[i]))

\* s.split(sep) for a one-atom separator
Split(s, sep) == SplitFrom(s, sep, 1, <<>>)

RECURSIVE Concat(_)
Concat(ss) == IF ss = <<>> THEN <<>> ELSE Head(ss) \o Concat(Tail(ss))

RECURSIVE Join(_, _)
\* sep.join(ss)
Join(sep, ss) ==
    IF ss = <<>> THEN <<>>
    ELSE IF Len(ss) = 1 THEN ss[1]
         ELSE ss[1] \o sep \o Join(sep, Tail(ss))

Reverse(s) == [i \in 1..Len(s) |-> s[Len(s) - i + 1]]

RECURSIVE Dedup(_, _)
Dedup(s, seen) ==
    IF s = <<>> THEN <<>>
    ELSE IF Head(s) \in seen THEN Dedup(Tail(s), seen)
         ELSE <<Head(s)>> \o Dedup(Tail(s), seen \cup {Head(s)})

Range(s) == {s[i] : i \in 1..Len(s)}

Min(S) == CHOOSE x \in S : \A y \in S : x <= y

-----------------------------------------------------------------------------
(* Literals of the source, as atoms.                                       *)

CreateTableSp == <<"CREATE TABLE", " ">>
NamePrefix == <<"CREATE TABLE", " ", "BT">>
Tick == <<"BT">>
PkStrip == <<"PRIMARY KEY", " ", "(">>
PkPrefix == <<"PRIMARY KEY", " ", "(", "BT">>
EngineMyISAM == <<"ENGINE", "=MyISAM">>
EngineInnoDB == <<"ENGINE", "=InnoDB">>
footer_template == <<"\n", ")", " ", "ENGINE">>
BadDate == <<"date NOT NULL", " ", "DEFAULT '0000-00-00'">>
GoodDate == <<"date NOT NULL">>

\* Python values: None, a str, a list of str
None == [kind |-> "None", val |-> <<>>]
Str(t) == [kind |-> "str", val |-> t]
List(ts) == [kind |-> "list", val |-> ts]

\* f"{v}" of a value that is None or a str
Format(v) == IF v.kind = "None" THEN <<"None">> ELSE v.val

\* results of calls that may raise
Ok(v) == [st |-> "ok", val |-> v]
Raise(e) == [st |-> e, val |-> <<>>]

-----------------------------------------------------------------------------
(* class Table                                                             *)

\* re.search(r"CREATE TABLE #.*?#", body, re.S): the leftmost match, lazily
\* ended at the next backtick; <<>> when there is none
NameMatch(b) ==
    LET starts == {i \in 1..Len(b) :
                      /\ StartsAt(b, NamePrefix, i)
                      /\ \E j \in (i + 3)..Len(b) : b[j] = "BT"}
    IN IF starts = {} THEN <<>>
       ELSE LET i == Min(starts)
                j == Min({k \in (i + 3)..Len(b) : b[k] = "BT"})
            IN <<i, j>>

get_name(b) ==
    LET m == NameMatch(b)
    IN IF m = <<>> THEN None
       ELSE Str(Replace(Replace(SubSeq(b, m[1], m[2]), CreateTableSp, <<>>),
                        Tick, <<>>))

\* the ends j (the closing backtick) of a match of PRIMARY KEY \(#.*?#\)
\* that starts at i; "." does not match a newline
PkEnds(b, i) ==
    {j \in (i + 4)..(Len(b) - 1) :
        /\ b[j] = "BT"
        /\ b[j + 1] = ")"
        /\ \A k \in (i + 4)..(j - 1) : b[k] # "\n"}

PkMatch(b) ==
    LET starts == {i \in 1..Len(b) :
                      StartsAt(b, PkPrefix, i) /\ PkEnds(b, i) # {}}
    IN IF starts = {} THEN <<>>
       ELSE LET i == Min(starts) IN <<i, Min(PkEnds(b, i)) + 1>>

get_primary_key(b) ==
    LET m == PkMatch(b)
    IN IF m = <<>> THEN None
       ELSE LET primary_keys ==
                    Replace(Replace(Replace(SubSeq(b, m[1], m[2]),
                                            PkStrip, <<>>), <<")">>, <<>>),
                            Tick, <<>>)
            IN IF Contains(primary_keys, <<",">>)
               THEN List(Split(primary_keys, ","))
               ELSE Str(primary_keys)

RECURSIVE FindTicks(_, _)
\* re.findall(r"#.*?#", s) scanning from position p
FindTicks(s, p) ==
    IF p > Len(s) THEN <<>>
    ELSE IF s[p] # "BT" THEN FindTicks(s, p + 1)
    ELSE LET ends == {j \in (p + 1)..Len(s) :
                         /\ s[j] = "BT"
                         /\ \A k \in (p + 1)..(j - 1) : s[k] \notin {"BT", "\n"}}
         IN IF ends = {} THEN FindTicks(s, p + 1)
            ELSE LET j == Min(ends)
                 IN <<SubSeq(s, p, j)>> \o FindTicks(s, j + 1)

\* list(set(xs)): the distinct elements in the order the string
\* hashing gives; the model takes first-occurrence order or its reverse
ListOfSet(xs, seed) ==
    IF seed = 0 THEN Dedup(xs, {}) ELSE Reverse(Dedup(xs, {}))

get_fields(b, seed) ==
    LET parens == {i \in 1..Len(b) : b[i] = "("}
    IN IF parens = {} THEN Raise("ValueError")
       ELSE LET found == FindTicks(SubSeq(b, Min(parens), Len(b)), 1)
                fields == [i \in 1..Len(found) |->
                              Replace(found[i], Tick, <<>>)]
            IN Ok(ListOfSet(fields, seed))

\* x.endswith("Id")
EndsWithId(x) == Len(x) > 0 /\ x[Len(x)] = "Id"

\* mutant: the exclusion of the primary key is forgotten
DiffersFromPk_NoExclusion(k, pk) == TRUE

\* mutant: a composite key excludes each of its components
DiffersFromPk_ByMembership(k, pk) ==
    IF pk.kind = "list" THEN k \notin Range(pk.val)
    ELSE ~(pk.kind = "str" /\ pk.val = k)

\* k != self.get_primary_key(): a str differs from None and from any list
DiffersFromPk(k, pk) == ~(pk.kind = "str" /\ pk.val = k)

get_foreign_keys(b, seed) ==
    LET fields == get_fields(b, seed)
    IN IF fields.st # "ok" THEN fields
       ELSE LET keys == SelectSeq(fields.val, EndsWithId)
                pk == get_primary_key(b)
                NotPk(k) == DiffersFromPk(k, pk)
            IN Ok(SelectSeq(keys, NotPk))

\* dict: an insertion-ordered sequence of [key, val]
DictKeys(d) == {d[i].key : i \in 1..Len(d)}
DictGet(d, k) == d[CHOOSE i \in 1..Len(d) : d[i].key = k].val
\* d[k] = v: a new key is appended, an old key keeps its place
DictSet(d, k, v) ==
    IF k \in DictKeys(d)
    THEN [i \in 1..Len(d) |-> IF d[i].key = k THEN [key |-> k, val |-> v]
                                              ELSE d[i]]
    ELSE Append(d, [key |-> k, val |-> v])

\* mutant: the referenced table is written backtick-quoted
ForeignClause_QuotedOwner(key, ot) ==
    <<",", "\n", "FOREIGN KEY", " ", "(">> \o key \o <<")", " ", "REFERENCES", " ", "BT">>
    \o Format(DictGet(ot, Str(key))) \o <<"BT", "(">> \o key \o <<")">>

\* ",\nFOREIGN KEY ({key}) REFERENCES {other_tables[key]}({key})"
ForeignClause(key, ot) ==
    <<",", "\n", "FOREIGN KEY", " ", "(">> \o key \o <<")", " ", "REFERENCES", " ">>
    \o Format(DictGet(ot, Str(key))) \o <<"(">> \o key \o <<")">>

\* mutant: the section is spliced in after the closing marker
get_converted_body_AfterMarker(b, seed, ot) ==
    LET temp == Replace(b, EngineMyISAM, EngineInnoDB)
        fks == get_foreign_keys(b, seed)
    IN IF fks.st # "ok" THEN fks
       ELSE IF fks.val = <<>> THEN Ok(temp)
       ELSE IF \E i \in 1..Len(fks.val) : Str(fks.val[i]) \notin DictKeys(ot)
            THEN Raise("KeyError")
       ELSE LET foreign_section ==
                    Concat([i \in 1..Len(fks.val) |-> ForeignClause(fks.val[i], ot)])
            IN Ok(Replace(temp, footer_template,
                          footer_template \o foreign_section))

get_converted_body(b, seed, ot) ==
    LET temp == Replace(b, EngineMyISAM, EngineInnoDB)
        fks == get_foreign_keys(b, seed)
    IN IF fks.st # "ok" THEN fks
       ELSE IF fks.val = <<>> THEN Ok(temp)
       ELSE IF \E i \in 1..Len(fks.val) : Str(fks.val[i]) \notin DictKeys(ot)
            THEN Raise("KeyError")
       ELSE LET foreign_section ==
                    Concat([i \in 1..Len(fks.val) |-> ForeignClause(fks.val[i], ot)])
            IN Ok(Replace(temp, footer_template,
                          foreign_section \o footer_template))

\* "ALTER TABLE {name} ADD FOREIGN KEY ({key}) REFERENCES {other_tables[key]}({key});"
AlterForeign(name, key, owner) ==
    <<"ALTER TABLE", " ">> \o Format(name)
    \o <<" ", "ADD", " ", "FOREIGN KEY", " ", "(">> \o key
    \o <<")", " ", "REFERENCES", " ">> \o Format(owner)
    \o <<"(">> \o key \o <<")", ";">>

get_alters(b, seed, ot) ==
    LET fks == get_foreign_keys(b, seed)
    IN IF fks.st # "ok" THEN fks
       ELSE IF fks.val = <<>> THEN Ok(<<>>)
       ELSE IF \E i \in 1..Len(fks.val) : Str(fks.val[i]) \notin DictKeys(ot)
            THEN Raise("KeyError")
       ELSE Ok([i \in 1..Len(fks.val) |->
                   AlterForeign(get_name(b), fks.val[i],
                                DictGet(ot, Str(fks.val[i])))])

-----------------------------------------------------------------------------
(* convert_dump_to_innodb                                                  *)

RECURSIVE FindStatements(_, _)
\* re.findall(r"CREATE TABLE.*?;", s, re.S) scanning from position p
FindStatements(s, p) ==
    LET starts == {i \in p..Len(s) :
                      /\ s[i] = "CREATE TABLE"
                      /\ \E j \in (i + 1)..Len(s) : s[j] = ";"}
    IN IF starts = {} THEN <<>>
       ELSE LET i == Min(starts)
                j == Min({k \in (i + 1)..Len(s) : s[k] = ";"})
            IN <<SubSeq(s, i, j)>> \o FindStatements(s, j + 1)

RECURSIVE BuildDbTables(_, _)
\* {table.get_name(): table for table in tables}, d the dict so far
BuildDbTables(ts, d) ==
    IF ts = <<>> THEN d
    ELSE BuildDbTables(Tail(ts), DictSet(d, get_name(Head(ts)), Head(ts)))

RECURSIVE BuildForeignKeys_KeepFirst(_, _)
\* mutant: an owner already recorded for a key is kept
BuildForeignKeys_KeepFirst(ts, d) ==
    IF ts = <<>> THEN d
    ELSE LET pk == get_primary_key(Head(ts))
         IN BuildForeignKeys_KeepFirst(Tail(ts),
                IF pk.kind = "str" /\ pk \notin DictKeys(d)
                THEN DictSet(d, pk, get_name(Head(ts)))
                ELSE d)

RECURSIVE RecordColumns(_, _, _)
RecordColumns(d, cols, name) ==
    IF cols = <<>> THEN d
    ELSE RecordColumns(DictSet(d, Str(Head(cols)), name), Tail(cols), name)

RECURSIVE BuildForeignKeys_Components(_, _)
\* mutant: the columns of a composite key are recorded too
BuildForeignKeys_Components(ts, d) ==
    IF ts = <<>> THEN d
    ELSE LET pk == get_primary_key(Head(ts))
         IN BuildForeignKeys_Components(Tail(ts),
                IF pk.kind = "str" THEN DictSet(d, pk, get_name(Head(ts)))
                ELSE IF pk.kind = "list"
                     THEN RecordColumns(d, pk.val, get_name(Head(ts)))
                     ELSE d)

RECURSIVE BuildForeignKeys(_, _)
\* {table.get_primary_key(): table.get_name() for table in tables
\*  if isinstance(table.get_primary_key(), str)}
BuildForeignKeys(ts, d) ==
    IF ts = <<>> THEN d
    ELSE LET pk == get_primary_key(Head(ts))
         IN BuildForeignKeys(Tail(ts),
                IF pk.kind = "str" THEN DictSet(d, pk, get_name(Head(ts)))
                ELSE d)

\* lines 150-154: the two whole-file substitutions
Substitute(s) ==
    Replace(Replace(s, BadDate, GoodDate), EngineMyISAM, EngineInnoDB)

\* what get_alters(foreign_keys) gives for each table of the dict, in order
AltersOf(d, seed, fk) == [i \in 1..Len(d) |-> get_alters(d[i].val, seed, fk)]

RECURSIVE CollectAlters_Swallow(_, _, _)
\* mutant: a table whose get_alters raises is skipped
CollectAlters_Swallow(temps, i, acc) ==
    IF i > Len(temps) THEN Ok(acc)
    ELSE CollectAlters_Swallow(temps, i + 1,
             IF temps[i].st # "ok" THEN acc ELSE acc \o temps[i].val)

RECURSIVE CollectAlters_Prepend(_, _, _)
\* mutant: each table's statements are put in front of the earlier ones
CollectAlters_Prepend(temps, i, acc) ==
    IF i > Len(temps) THEN Ok(acc)
    ELSE IF temps[i].st # "ok" THEN [st |-> temps[i].st, val |-> acc]
    ELSE CollectAlters_Prepend(temps, i + 1, temps[i].val \o acc)

RECURSIVE CollectAlters(_, _, _)
\* lines 156-158: alters.extend(temp) for the tables from position i on,
\* temps[i] being the temp of table i; a raise ends the loop
CollectAlters(temps, i, acc) ==
    IF i > Len(temps) THEN Ok(acc)
    ELSE IF temps[i].st # "ok" THEN [st |-> temps[i].st, val |-> acc]
    ELSE CollectAlters(temps, i + 1, acc \o temps[i].val)

\* "ALTER TABLE #{name}# DROP PRIMARY KEY;"
AlterDrop(name) ==
    <<"ALTER TABLE", " ", "BT">> \o Format(name)
    \o <<"BT", " ", "DROP", " ", "PRIMARY KEY", ";">>

\* "ALTER TABLE #{name}# ADD COLUMN #id# int(11) PRIMARY KEY AUTO_INCREMENT;"
AlterAddId(name) ==
    <<"ALTER TABLE", " ", "BT">> \o Format(name)
    \o <<"BT", " ", "ADD", " ", "COLUMN", " ", "BT", "id", "BT", " ", "int",
         "(", "11", ")", " ", "PRIMARY KEY", " ", "AUTO_INCREMENT", ";">>

RECURSIVE SingleKeyAlters_AddFirst(_, _)
\* mutant: the surrogate column is added before the key is dropped
SingleKeyAlters_AddFirst(d, i) ==
    IF i > Len(d) THEN <<>>
    ELSE LET key == get_primary_key(d[i].val)
             name == get_name(d[i].val)
         IN (IF key.kind = "list" THEN <<AlterAddId(name), AlterDrop(name)>>
             ELSE <<>>)
            \o SingleKeyAlters_AddFirst(d, i + 1)

RECURSIVE SingleKeyAlters(_, _)
\* lines 164-169, for the tables from position i on
SingleKeyAlters(d, i) ==
    IF i > Len(d) THEN <<>>
    ELSE LET key == get_primary_key(d[i].val)
             name == get_name(d[i].val)
         IN (IF key.kind = "list" THEN <<AlterDrop(name), AlterAddId(name)>>
             ELSE <<>>)
            \o SingleKeyAlters(d, i + 1)

\* the argument of the call and line 173
InputPath == [parent |-> <<"/dumps">>, stem |-> <<"f1db">>, suffix |-> <<".sql">>]
NewFile(path) == path.parent \o <<"/">> \o path.stem \o <<"_innodb">> \o path.suffix

\* the call has neither returned nor raised yet
Running == [st |-> "running", val |-> <<>>]

NoFile == [exists |-> FALSE, content |-> <<>>]
StaleFile == [exists |-> TRUE, content |-> <<"stale">>]

\* lines 140-148
Parse ==
    /\ pc = "start"
    /\ tables' = FindStatements(sql, 1)
    /\ db_tables' = BuildDbTables(tables', <<>>)
    /\ foreign_keys' = BuildForeignKeys(tables', <<>>)
    /\ pc' = "parsed"
    /\ UNCHANGED <<sql, only_single_keys, hashSeed, outFile, new_sql, alters, ret>>
    /\ UNCHANGED tableVars

\* lines 150-154
SubstituteText ==
    /\ pc = "parsed"
    /\ new_sql' = Substitute(sql)
    /\ pc' = "substituted"
    /\ UNCHANGED <<sql, only_single_keys, hashSeed, outFile, tables, db_tables,
                   foreign_keys, alters, ret>>
    /\ UNCHANGED tableVars

\* the loop of lines 155-158 ran through, or an exception left the function
EndOfLoop(r) ==
    /\ alters' = r.val
    /\ IF r.st = "ok"
       THEN pc' = "collected" /\ ret' = ret
       ELSE pc' = "raised" /\ ret' = Raise(r.st)

\* lines 155-158
Collect ==
    /\ pc = "substituted"
    /\ EndOfLoop(CollectAlters(AltersOf(db_tables, hashSeed, foreign_keys),
                               1, <<>>))
    /\ UNCHANGED <<sql, only_single_keys, hashSeed, outFile, tables, db_tables,
                   foreign_keys, new_sql>>
    /\ UNCHANGED tableVars

\* lines 160-169
Normalize ==
    /\ pc = "collected"
    /\ alters' = IF only_single_keys
                 THEN alters \o SingleKeyAlters(db_tables, 1)
                 ELSE alters
    /\ pc' = "normalized"
    /\ UNCHANGED <<sql, only_single_keys, hashSeed, outFile, tables, db_tables,
                   foreign_keys, new_sql, ret>>
    /\ UNCHANGED tableVars

\* lines 171-176
WriteFile ==
    /\ pc = "normalized"
    /\ new_sql' = new_sql \o <<"\n", "\n", "\n">> \o Join(<<"\n">>, alters)
    /\ outFile' = [exists |-> TRUE, content |-> new_sql']
    /\ ret' = Ok(NewFile(InputPath))
    /\ pc' = "done"
    /\ UNCHANGED <<sql, only_single_keys, hashSeed, tables, db_tables,
                   foreign_keys, alters>>
    /\ UNCHANGED tableVars

-----------------------------------------------------------------------------
(* Inputs: CREATE TABLE statements in the dialect of the dumps, and the    *)
(* malformed shapes the extraction has to survive.                         *)

MaxStmts == 2      \* statements in the input file
MaxMarkers == 2    \* closing markers "\n) ENGINE=MyISAM" in a body under test

ColA == <<"a", "Id">>
ColB == <<"b", "Id">>
ColC == <<"c", "Id">>
ColZ == <<"z">>
ColW == <<"w">>
ColE == <<"ENGINE", "=MyISAM", "Id">>

RECURSIVE SeqsUpTo(_, _)
SeqsUpTo(S, n) ==
    IF n = 0 THEN {<<>>}
    ELSE LET shorter == SeqsUpTo(S, n - 1)
         IN shorter \cup {Append(q, x) : q \in shorter, x \in S}

Header(nm) == <<"CREATE TABLE", " ", "BT">> \o nm \o <<"BT", " ", "(">>
ColumnDef(c, type) == <<"\n", "BT">> \o c \o <<"BT">> \o type \o <<",">>
PkClause(cs) ==
    IF cs = <<>> THEN <<>>
    ELSE <<"\n", "PRIMARY KEY", " ", "(">>
         \o Join(<<",">>, [i \in 1..Len(cs) |-> <<"BT">> \o cs[i] \o <<"BT">>])
         \o <<")">>
ClosingMarker == <<"\n", ")", " ", "ENGINE", "=MyISAM">>
RECURSIVE Repeat(_, _)
Repeat(t, n) == IF n = 0 THEN <<>> ELSE t \o Repeat(t, n - 1)

Statement(header, cols, pk, markers) ==
    header \o Concat([i \in 1..Len(cols) |-> ColumnDef(cols[i], <<>>)])
    \o PkClause(pk) \o Repeat(ClosingMarker, markers) \o <<";">>

\* headers of a body under test: a plain name, no name, a name holding the
\* engine marker, a closing marker before the first parenthesis, and a
\* closing marker inside the name (before and after a parenthesis)
TableHeaders ==
    { Header(<<"a">>),
      <<"CREATE TABLE", " ", "(">>,
      Header(<<"a", "ENGINE", "=MyISAM">>),
      <<"CREATE TABLE", " ", "BT", "a", "BT", "\n", ")", " ", "ENGINE", " ",
        "BT", "z", "BT", " ", "(">>,
      Header(<<"a", "\n", ")", " ", "ENGINE">>),
      Header(<<"a", "(", "\n", ")", " ", "ENGINE">>) }

TablePks == {<<>>, <<ColA>>, <<ColB>>, <<ColZ>>, <<ColA, ColB>>}

\* column definitions of a body under test, in declaration order
TableColumns ==
    { <<>>, <<ColA>>, <<ColB>>, <<ColZ>>, <<ColE>>, <<ColA, ColB>>,
      <<ColB, ColA>>, <<ColA, ColZ>>, <<ColA, ColA>>, <<ColA, ColE>>,
      <<ColB, ColZ>> }

TableBodies ==
    { Statement(h, cs, pk, n) :
        h \in TableHeaders, cs \in TableColumns,
        pk \in TablePks, n \in 0..MaxMarkers }
    \cup {<<"CREATE TABLE", " ", "BT", "a", "BT", ";">>}

\* dicts handed to a table under test
OwnerMaps ==
    { <<>>,
      <<[key |-> Str(ColA), val |-> Str(<<"a">>)]>>,
      <<[key |-> Str(ColA), val |-> Str(<<"a">>)],
        [key |-> Str(ColB), val |-> None],
        [key |-> Str(ColE), val |-> Str(<<"b">>)]>> }

\* statements of an input file: column definitions and primary key
Owner(c) == [cols |-> <<c>>, pk |-> <<c>>]
DumpShapesA ==
    { Owner(ColA),
      [cols |-> <<ColA, ColB>>, pk |-> <<ColA>>],
      [cols |-> <<ColA, ColB>>, pk |-> <<>>],
      [cols |-> <<ColA, ColC>>, pk |-> <<ColA>>],
      [cols |-> <<ColZ, ColA>>, pk |-> <<ColZ, ColA>>] }
DumpShapesB ==
    { Owner(ColA),
      Owner(ColB),
      [cols |-> <<ColA, ColB>>, pk |-> <<ColB>>] }

DateType == <<" ">> \o BadDate
TwiceDateType == <<" ">> \o BadDate \o <<" ", "DEFAULT '0000-00-00'">>

DumpStatements ==
    { Statement(Header(<<"a">>), sh.cols, sh.pk, 1) : sh \in DumpShapesA }
    \cup
    { Statement(Header(<<"b">>), sh.cols, sh.pk, 1) : sh \in DumpShapesB }
    \cup
    { \* no backtick-quoted name
      Statement(<<"CREATE TABLE", " ", "(">>, <<ColA>>, <<ColA>>, 1),
      \* no parenthesis at all
      <<"CREATE TABLE", " ", "BT", "a", "BT", ";">>,
      \* date columns with the malformed default, once and doubled
      Header(<<"d">>) \o ColumnDef(<<"x">>, DateType)
          \o ColumnDef(<<"y">>, TwiceDateType) \o ClosingMarker \o <<";">>,
      \* the malformed default inside a quoted name
      Statement(Header(BadDate), <<ColZ, ColW>>, <<ColZ, ColW>>, 1) }

Dumps == {Concat(q) : q \in SeqsUpTo(DumpStatements, MaxStmts)}

-----------------------------------------------------------------------------
(* Specification of one call of convert_dump_to_innodb.                    *)

Init ==
    /\ sql \in Dumps
    /\ only_single_keys \in BOOLEAN
    /\ hashSeed \in {0, 1}
    /\ outFile \in {NoFile, StaleFile}
    /\ pc = "start"
    /\ tables = <<>>
    /\ db_tables = <<>>
    /\ foreign_keys = <<>>
    /\ new_sql = <<>>
    /\ alters = <<>>
    /\ ret = Running
    /\ body = <<>>
    /\ other_tables = <<>>
    /\ call = "none"
    /\ result = Ok(<<>>)

Next == Parse \/ SubstituteText \/ Collect \/ Normalize \/ WriteFile

Spec == Init /\ [][Next]_vars

-----------------------------------------------------------------------------
(* Specification of one Table object and the methods applied to it.        *)

Apply(method, value) ==
    /\ call' = method
    /\ result' = value
    /\ UNCHANGED <<body, other_tables, hashSeed>>
    /\ UNCHANGED convVars

GetName == Apply("get_name", Ok(get_name(body)))
GetPrimaryKey == Apply("get_primary_key", Ok(get_primary_key(body)))
GetFields == Apply("get_fields", get_fields(body, hashSeed))
GetForeignKeys == Apply("get_foreign_keys", get_foreign_keys(body, hashSeed))
GetConvertedBody ==
    Apply("get_converted_body", get_converted_body(body, hashSeed, other_tables))
GetAlters == Apply("get_alters", get_alters(body, hashSeed, other_tables))

TableInit ==
    /\ body \in TableBodies
    /\ other_tables \in OwnerMaps
    /\ hashSeed \in {0, 1}
    /\ call = "new"
    /\ result = Ok(<<>>)
    /\ sql = <<>>
    /\ only_single_keys = TRUE
    /\ outFile = NoFile
    /\ pc = "idle"
    /\ tables = <<>>
    /\ db_tables = <<>>
    /\ foreign_keys = <<>>
    /\ new_sql = <<>>
    /\ alters = <<>>
    /\ ret = Running

TableNext ==
    \/ GetName
    \/ GetPrimaryKey
    \/ GetFields
    \/ GetForeignKeys
    \/ GetConvertedBody
    \/ GetAlters

TableSpec == TableInit /\ [][TableNext]_vars

-----------------------------------------------------------------------------
(* Properties of the Table methods (checked under TableSpec).              *)

IdFields(b, seed) ==
    {f \in Range(get_fields(b, seed).val) : EndsWithId(f)}

\* C5: get_foreign_keys() never contains the table's own single-column
\* primary key, and each of its elements is a member of get_fields() that
\* ends with Id.
C5_ForeignKeysExcludeOwnKey ==
    (call = "get_foreign_keys" /\ result.st = "ok") =>
        LET pk == get_primary_key(body)
        IN \A i \in 1..Len(result.val) :
              /\ pk.kind = "str" => result.val[i] # pk.val
              /\ result.val[i] \in IdFields(body, hashSeed)

\* the primary key is a column ending with Id, it was left out, and other
\* columns were returned
C5_Witness ==
    /\ call = "get_foreign_keys"
    /\ result.st = "ok"
    /\ result.val # <<>>
    /\ get_primary_key(body).kind = "str"
    /\ get_primary_key(body).val \in IdFields(body, hashSeed)

\* C9: with a composite primary key nothing is excluded: every column of
\* get_fields() that ends with Id is returned, the components of the
\* primary key included.
C9_CompositeKeyExcludesNothing ==
    (call = "get_foreign_keys" /\ result.st = "ok"
        /\ get_primary_key(body).kind = "list") =>
        /\ Len(get_primary_key(body).val) >= 2
        /\ Range(result.val) = IdFields(body, hashSeed)

\* a component of the composite primary key is among the foreign keys
C9_Witness ==
    /\ call = "get_foreign_keys"
    /\ result.st = "ok"
    /\ get_primary_key(body).kind = "list"
    /\ \E i \in 1..Len(result.val) :
          result.val[i] \in Range(get_primary_key(body).val)

\* what the extraction reports of a body: name, set of fields, primary key
Extraction(b) ==
    [name |-> get_name(b),
     fields |-> [st |-> get_fields(b, 0).st, val |-> Range(get_fields(b, 0).val)],
     primary_key |-> get_primary_key(b)]

MarkersAfterHead(b) ==
    \A i \in 1..Len(b) :
        StartsAt(b, footer_template, i) =>
            /\ \E k \in 1..(i - 1) : b[k] = "("
            /\ NameMatch(b) # <<>> => i > NameMatch(b)[2]

InjectedClause(col, owner) ==
    <<",", "\n", "FOREIGN KEY", " ", "(">> \o col
    \o <<")", " ", "REFERENCES", " ">> \o owner \o <<"(">> \o col \o <<")">>

InjectedSection(fks, ot) ==
    Concat([i \in 1..Len(fks) |->
               InjectedClause(fks[i], Format(DictGet(ot, Str(fks[i]))))])

-----------------------------------------------------------------------------
(* Properties of convert_dump_to_innodb (checked under Spec).              *)

\* the statements extracted from the input, by position
Stmts == 1..Len(tables)
Names == [i \in Stmts |-> get_name(tables[i])]
Keys == [i \in Stmts |-> get_primary_key(tables[i])]
SingleKeyed == {i \in Stmts : Keys[i].kind = "str"}

\* C1 as stated: once the owner map is built, for every extracted statement
\* with a single-column primary key k the map entry for k is that
\* statement's table name.
C1_OwnerIsEveryDeclarer ==
    pc = "parsed" =>
        \A i \in SingleKeyed :
            /\ Keys[i] \in DictKeys(foreign_keys)
            /\ DictGet(foreign_keys, Keys[i]) = Names[i]

\* C1 amended: the owner map has an entry for exactly the single-column
\* primary keys, and the entry for k is the name of the last statement that
\* declares k.
C1_OwnerIsLastDeclarer ==
    pc = "parsed" =>
        /\ DictKeys(foreign_keys) = {Keys[i] : i \in SingleKeyed}
        /\ \A i \in SingleKeyed :
              (\A j \in SingleKeyed : Keys[j] = Keys[i] => j <= i)
                  => DictGet(foreign_keys, Keys[i]) = Names[i]

\* two statements with different names declare the same single-column key
C1_Witness ==
    /\ pc = "parsed"
    /\ \E i, j \in SingleKeyed :
          /\ i < j
          /\ Keys[i] = Keys[j]
          /\ Names[i] # Names[j]

\* a table with a foreign-key column that has no entry in the owner map
Unresolved(b) ==
    /\ get_foreign_keys(b, hashSeed).st = "ok"
    /\ \E k \in Range(get_foreign_keys(b, hashSeed).val) :
          Str(k) \notin DictKeys(foreign_keys)

\* nothing was written and no path was returned; once over, the call raised
NoOutput ==
    /\ pc \in {"parsed", "substituted", "raised"}
    /\ outFile \in {NoFile, StaleFile}
    /\ ret.st # "ok"
    /\ pc = "raised" => ret.st \in {"KeyError", "ValueError"}

\* C2 as stated: an unresolved foreign-key column of any table (any
\* extracted statement) makes the call abort without output.
C2_AbortForAnyStatement ==
    (pc # "start" /\ \E i \in Stmts : Unresolved(tables[i])) => NoOutput

\* C2 amended: an unresolved foreign-key column of a table kept in the
\* table-name map (the last statement of its name) makes the call abort with
\* an error before the output file is opened: nothing is written, no path
\* is returned.
C2_AbortForKeptTable ==
    (pc # "start" /\ \E i \in 1..Len(db_tables) : Unresolved(db_tables[i].val)) => NoOutput

\* the call raised KeyError on an unresolved column, a stale output file
\* in place
C2_Witness ==
    /\ pc = "raised"
    /\ ret.st = "KeyError"
    /\ outFile = StaleFile
    /\ \E i \in 1..Len(db_tables) : Unresolved(db_tables[i].val)

\* positions of the alteration block where the pair for name n starts
PairsOf(n) ==
    {j \in 1..(Len(alters) - 1) :
        alters[j] = AlterDrop(n) /\ alters[j + 1] = AlterAddId(n)}

\* C3 as stated: with only_single_keys, every statement of the input with a
\* composite primary key has exactly one DROP PRIMARY KEY statement for its
\* name in the block, immediately followed by the ADD COLUMN statement.
C3_PairForEveryStatement ==
    (pc = "done" /\ only_single_keys) =>
        \A i \in Stmts :
            Keys[i].kind = "list" =>
                /\ Cardinality({j \in 1..Len(alters) : alters[j] = AlterDrop(Names[i])}) = 1
                /\ Cardinality(PairsOf(Names[i])) = 1

KeptComposite ==
    {i \in 1..Len(db_tables) : get_primary_key(db_tables[i].val).kind = "list"}

\* C3 amended: with only_single_keys, every table kept in the table-name map
\* (the last statement of its name) whose primary key is composite has its
\* DROP PRIMARY KEY statement in the block, immediately followed by its ADD
\* COLUMN statement, and the block holds one such pair per kept composite
\* table and no other DROP or ADD COLUMN statement.
C3_PairForEveryKeptTable ==
    (pc = "done" /\ only_single_keys) =>
        /\ \A i \in KeptComposite : PairsOf(db_tables[i].key) # {}
        /\ Cardinality({j \in 1..Len(alters) : Contains(alters[j], <<"DROP">>)})
              = Cardinality(KeptComposite)
        /\ Cardinality({j \in 1..Len(alters) : Contains(alters[j], <<"COLUMN">>)})
              = Cardinality(KeptComposite)
        /\ \A j \in 1..Len(alters) :
              Contains(alters[j], <<"DROP">>) =>
                  \E i \in KeptComposite : j \in PairsOf(db_tables[i].key)

\* a kept composite table got its pair although an earlier statement of the
\* same name was dropped from the map
C3_Witness ==
    /\ pc = "done"
    /\ only_single_keys
    /\ KeptComposite # {}
    /\ Len(tables) > Len(db_tables)
    /\ \E j \in 1..Len(alters) : Contains(alters[j], <<"DROP">>)

\* C4: after a successful call the written output holds no occurrence of
\* the malformed default-date literal.
C4_NoMalformedDate ==
    pc = "done" => ~Contains(outFile.content, BadDate)

\* "ALTER TABLE n ADD FOREIGN KEY (c) REFERENCES o(c);"
ForeignStatement(n, c, o) ==
    <<"ALTER TABLE", " ">> \o n \o <<" ", "ADD", " ", "FOREIGN KEY", " ", "(">>
    \o c \o <<")", " ", "REFERENCES", " ">> \o o \o <<"(">> \o c \o <<")", ";">>

IsForeignStatement(st) == Contains(st, <<"ADD", " ", "FOREIGN KEY">>)
IsDropStatement(st) == Contains(st, <<"DROP", " ", "PRIMARY KEY">>)

\* one foreign-key statement per foreign key of the table at position i of
\* the table-name map
ForeignStatementsOf(i) ==
    LET fks == get_foreign_keys(db_tables[i].val, hashSeed).val
    IN [k \in 1..Len(fks) |->
           ForeignStatement(Format(db_tables[i].key), fks[k],
                            Format(DictGet(foreign_keys, Str(fks[k]))))]

\* the DROP PRIMARY KEY / ADD COLUMN pair of a composite-key table
PairOf(i) ==
    IF get_primary_key(db_tables[i].val).kind = "list"
    THEN <<AlterDrop(db_tables[i].key), AlterAddId(db_tables[i].key)>>
    ELSE <<>>

C10_ForeignStatementsWellFounded ==
    pc = "done" =>
        \A j \in 1..Len(alters) :
            IsForeignStatement(alters[j]) =>
                \E t \in 1..Len(db_tables) :
                    \E c \in IdFields(db_tables[t].val, hashSeed) :
                        /\ get_primary_key(db_tables[t].val) # Str(c)
                        /\ \E i \in SingleKeyed :
                              /\ Keys[i] = Str(c)
                              /\ alters[j] =
                                    ForeignStatement(Format(db_tables[t].key), c,
                                                     Format(Names[i]))

\* two tables that reference each other, a foreign-key statement for each
C10_Witness ==
    /\ pc = "done"
    /\ Len(alters) = 2
    /\ \A j \in 1..Len(alters) : IsForeignStatement(alters[j])
    /\ alters[1] # alters[2]

====
